---- MODULE Spec2Model ----
(***************************************************************************)
(* treetools: tree transformations (root_attach, negra_mark_heads,         *)
(* boyd_split, raising) and PMCFG extraction (extract, pmcfg).             *)
(*                                                                         *)
(* A tree is an arena of nodes 1..Len(parent).  Every node has the fields  *)
(* of trees.Tree: parent (None = 0), children (the raw list the passes     *)
(* append to and remove from) and data (the attribute dict).  data[n].keys *)
(* is the set of keys present in the dict; a field whose key is absent     *)
(* holds a placeholder that is never read.                                 *)
(***************************************************************************)
EXTENDS Integers, Sequences, FiniteSets, TLC

VARIABLES
    tree,        \* the root node handed to the passes
    parent,      \* parent[n]: Tree.parent (None = 0)
    children,    \* children[n]: Tree.children, the raw list
    data,        \* data[n]: Tree.data
    trans,       \* args.trans, the pass names still to be applied from ip on
    ip,          \* index of the next name of trans
    pc,          \* "run" between passes, "root_attach" inside its loop
    err,         \* the exception that ended the run, "none" if none
    tree_terms,  \* root_attach: terminals(tree) taken at entry
    queue,       \* root_attach: children of the root not yet iterated
    child,       \* root_attach: the loop variable
    target,      \* root_attach: the lca the child was moved to, None if ignored
    examined,    \* root_attach: the children the loop has iterated over so far
    split_log,   \* boyd_split: subtree, parent, blocks and split of every split
    grammar,     \* grammar.run: the dict func -> lin -> vert -> count
    cnt,         \* grammar.run: 1 + the number of trees extracted
    dest         \* pmcfg: the lines written to dest_stream, <<>> before

\* ---------------------------------------------------------------- bounds
MaxTerminals == 4
MaxInternal == 2
MaxAttachTerminals == 5
MaxGrammarTerminals == 3
MaxDriverTerminals == 4

\* ------------------------------------------------------------- constants
None == 0

\* ------------------------------------------------------ sequence helpers
Range(s) == {s[i] : i \in 1..Len(s)}

RECURSIVE remove(_, _)
\* list.remove(x): delete the first occurrence of x
remove(s, x) ==
    IF s = <<>> THEN <<>>
    ELSE IF Head(s) = x THEN Tail(s)
    ELSE <<Head(s)>> \o remove(Tail(s), x)

RECURSIVE SortPairs(_)
\* the second components of the pairs of P, in ascending order of the first
SortPairs(P) ==
    IF P = {} THEN <<>>
    ELSE LET m == CHOOSE p \in P : \A q \in P : p[1] <= q[1]
         IN <<m[2]>> \o SortPairs(P \ {m})

\* the elements of the finite set S in ascending order of key[x]
SortBy(S, key) == SortPairs({<<key[x], x>> : x \in S})

\* ------------------------------------------- tree model (trees.* module)
RECURSIVE Reach(_, _, _)
Reach(ch, S, fuel) ==
    LET N == S \cup UNION {Range(ch[x]) : x \in S}
    IN IF fuel = 0 \/ N = S THEN S ELSE Reach(ch, N, fuel - 1)

\* all nodes of the subtree rooted in t
subtree_nodes(ch, t) == Reach(ch, {t}, Len(ch))

\* terminals(t): the leaves below t (t itself if it is a leaf), by num
terminals(ch, dat, t) ==
    SortBy({x \in subtree_nodes(ch, t) : ch[x] = <<>>},
           [x \in 1..Len(ch) |-> dat[x].num])

nums(ch, dat, t) == {dat[x].num : x \in {y \in subtree_nodes(ch, t) : ch[y] = <<>>}}

Min(S) == CHOOSE x \in S : \A y \in S : x <= y
Max(S) == CHOOSE x \in S : \A y \in S : x >= y

\* has_children(t)
has_children(ch, t) == ch[t] # <<>>

\* children(t): the children of t left to right, i.e. by leftmost terminal
trees_children(ch, dat, t) ==
    SortBy(Range(ch[t]), [x \in 1..Len(ch) |-> Min(nums(ch, dat, x))])

\* right_sibling(n): the next child of n's parent after n, or None
right_sibling(par, ch, dat, n) ==
    IF par[n] = None THEN None
    ELSE LET sib == trees_children(ch, dat, par[n])
             i == CHOOSE j \in 1..Len(sib) : sib[j] = n
         IN IF i < Len(sib) THEN sib[i + 1] ELSE None

RECURSIVE dominance(_, _)
\* dominance(t): the ancestors of t, from its parent up to the root
dominance(par, t) ==
    IF par[t] = None THEN <<>> ELSE <<par[t]>> \o dominance(par, par[t])

\* lca(a, b): the lowest node that dominates both a and b, None if none does
lca(par, a, b) ==
    LET pa == <<a>> \o dominance(par, a)
        pb == <<b>> \o dominance(par, b)
        common == {i \in 1..Len(pa) : pa[i] \in Range(pb)}
    IN IF common = {} THEN None ELSE pa[Min(common)]

RECURSIVE preorder(_, _, _)
RECURSIVE preorder_list(_, _, _)
\* preorder(t): t, then the subtrees of its children left to right
preorder(ch, dat, t) == <<t>> \o preorder_list(ch, dat, trees_children(ch, dat, t))
preorder_list(ch, dat, s) ==
    IF s = <<>> THEN <<>>
    ELSE preorder(ch, dat, Head(s)) \o preorder_list(ch, dat, Tail(s))

RECURSIVE postorder(_, _, _)
RECURSIVE postorder_list(_, _, _)
\* postorder(t): the subtrees of the children left to right, then t
postorder(ch, dat, t) == postorder_list(ch, dat, trees_children(ch, dat, t)) \o <<t>>
postorder_list(ch, dat, s) ==
    IF s = <<>> THEN <<>>
    ELSE postorder(ch, dat, Head(s)) \o postorder_list(ch, dat, Tail(s))

RECURSIVE runs(_)
\* a sequence of nodes cut into maximal runs of consecutive positions;
\* runs(s) works on the sequence of their nums
runs(ns) ==
    IF ns = <<>> THEN <<>>
    ELSE IF Len(ns) = 1 THEN <<ns>>
    ELSE LET r == runs(Tail(ns))
         IN IF ns[2] = ns[1] + 1
            THEN <<(<<ns[1]>> \o r[1])>> \o Tail(r)
            ELSE <<(<<ns[1]>>)>> \o r

\* terminal_blocks(t): terminals(t) partitioned into maximal contiguous runs
terminal_blocks(ch, dat, t) ==
    LET ts == terminals(ch, dat, t)
        byNum == [k \in {dat[ts[i]].num : i \in 1..Len(ts)} |->
                     CHOOSE x \in Range(ts) : dat[x].num = k]
        rs == runs([i \in 1..Len(ts) |-> dat[ts[i]].num])
    IN [b \in 1..Len(rs) |-> [j \in 1..Len(rs[b]) |-> byNum[rs[b][j]]]]

\* ----------------------------------------------------------- input trees
Edges == {"HD", "NK", "--"}

\* data dict of a freshly read node
terminal_data(lab, e, n) ==
    [keys |-> {"label", "edge", "num"}, label |-> lab, edge |-> e, num |-> n,
     head |-> FALSE, split |-> FALSE, head_block |-> FALSE, block_number |-> 0]
nonterminal_data(lab, e) ==
    [keys |-> {"label", "edge"}, label |-> lab, edge |-> e, num |-> 0,
     head |-> FALSE, split |-> FALSE, head_block |-> FALSE, block_number |-> 0]

\* the edge labels the input trees are drawn with: node n has pat[(n % 3) + 1]
EdgePatterns ==
    { <<"HD", "NK", "--">>, <<"NK", "HD", "NK">>, <<"--", "--", "--">>,
      <<"NK", "--", "HD">> }

\* the node labels the input trees are drawn with: root, then the internal
\* nodes in turn
LabelPatterns ==
    { <<"S", "NP", "VP">>, <<"S", "NP", "NP">>, <<"S", "S", "S">> }

vars == <<tree, parent, children, data, trans, ip, pc, err,
          tree_terms, queue, child, target, examined, split_log,
          grammar, cnt, dest>>
ravars == <<tree_terms, queue, child, target, examined>>
gvars == <<grammar, cnt, dest>>

RECURSIVE path_up(_, _)
\* x and its ancestors under the parent vector par (node 1 is the root)
path_up(par, x) == IF x = 1 THEN {1} ELSE {x} \cup path_up(par, par[x])

\* the leftmost terminal below the internal node i
leftmost(par, i, T) == Min({c \in T : i \in path_up(par, c)})

\* a tree as the reader delivers it: k <= kmax terminals, m internal nodes below the
\* root, edges by pat, labels by labs; raw child lists in order of node id.
\* Internal nodes are numbered top down, then by leftmost terminal, which
\* picks one numbering of every tree.
InputTree(kmax, pat, labs) ==
    \E k \in 1..kmax, m \in 0..MaxInternal :
       \E ipar \in [2..(m + 1) -> 1..(m + 1)] :
          /\ \A i \in 2..(m + 1) : ipar[i] < i
          /\ \E tpar \in [(m + 2)..(m + 1 + k) -> 1..(m + 1)] :
                LET par == [n \in 2..(m + 1 + k) |->
                               IF n <= m + 1 THEN ipar[n] ELSE tpar[n]]
                IN /\ {par[c] : c \in 2..(m + 1 + k)} = 1..(m + 1)
                   /\ \A i \in 2..m :
                         leftmost(par, i, (m + 2)..(m + 1 + k))
                            <= leftmost(par, i + 1, (m + 2)..(m + 1 + k))
                   /\ parent = [n \in 1..(m + 1 + k) |->
                                   IF n = 1 THEN None ELSE par[n]]
                   /\ children = [n \in 1..(m + 1 + k) |->
                         SortBy({c \in 2..(m + 1 + k) : par[c] = n},
                                [c \in 2..(m + 1 + k) |-> c])]
                   /\ data = [n \in 1..(m + 1 + k) |->
                         IF n = 1 THEN nonterminal_data(labs[1], "--")
                         ELSE IF n <= m + 1
                         THEN nonterminal_data(labs[2 + (n % 2)], pat[(n % 3) + 1])
                         ELSE terminal_data("T", pat[(n % 3) + 1], n - (m + 1))]

Locals ==
    /\ tree = 1
    /\ ip = 1
    /\ pc = "run"
    /\ err = "none"
    /\ tree_terms = <<>>
    /\ queue = <<>>
    /\ child = None
    /\ target = None
    /\ examined = <<>>
    /\ split_log = <<>>
    /\ grammar = <<>>
    /\ cnt = 1
    /\ dest = <<>>

\* the passes in the order the pipeline applies them
Pipeline == <<"root_attach", "negra_mark_heads", "boyd_split", "raising">>

\* the transform command: a tree with arbitrary edges, the whole pipeline
Init ==
    /\ \E pat \in EdgePatterns : InputTree(MaxTerminals, pat, <<"VROOT", "S", "S">>)
    /\ trans = Pipeline
    /\ Locals

\* the transform command without root_attach: every input tree is split
InitSplit ==
    /\ \E pat \in EdgePatterns : InputTree(MaxTerminals, pat, <<"VROOT", "S", "S">>)
    /\ trans = <<"negra_mark_heads", "boyd_split", "raising">>
    /\ Locals

\* the transform command with root_attach alone, on longer sentences
InitAttach ==
    /\ InputTree(MaxAttachTerminals, <<"HD", "NK", "--">>, <<"VROOT", "S", "S">>)
    /\ trans = <<"root_attach">>
    /\ Locals

\* s with the name x put in before position i
insert(s, i, x) == SubSeq(s, 1, i - 1) \o <<x>> \o SubSeq(s, i, Len(s))

\* values of --trans: the pipeline, and the pipeline with a name that is no
\* pass anywhere in it
TransLists ==
    { insert(Pipeline, i, "no_such_pass") : i \in 1..(Len(Pipeline) + 1) }
    \cup { Pipeline }

\* values of --trans: the pipeline, and lists in which boyd_split does not
\* follow negra_mark_heads directly
OrderLists ==
    { Pipeline,
      <<"boyd_split">>,
      <<"root_attach", "boyd_split", "raising">>,
      <<"negra_mark_heads", "root_attach", "boyd_split">>,
      <<"negra_mark_heads", "boyd_split", "root_attach", "boyd_split">>,
      <<"negra_mark_heads", "boyd_split", "raising", "boyd_split">> }

\* the transform command with a list of TransLists
InitDriver ==
    /\ InputTree(MaxDriverTerminals, <<"NK", "HD", "NK">>, <<"VROOT", "S", "S">>)
    /\ trans \in TransLists
    /\ Locals

\* the transform command with a list of OrderLists
InitOrder ==
    /\ InputTree(MaxDriverTerminals, <<"NK", "HD", "NK">>, <<"VROOT", "S", "S">>)
    /\ trans \in OrderLists
    /\ Locals

\* the grammar command: no passes, the input delivers trees of one shape
InitGrammar ==
    /\ InputTree(MaxGrammarTerminals, <<"HD", "NK", "--">>, <<"VROOT", "S", "S">>)
    /\ trans = <<>>
    /\ Locals

\* ------------------------------------------------------------ root_attach
\* scan_right with the gap test off by one: no sibling is ever absorbed
scan_right_no_absorb(par, ch, dat, focus, sibling, t_r) == t_r

RECURSIVE scan_right(_, _, _, _, _, _)
\* the while loop of root_attach: the right boundary t_r
scan_right(par, ch, dat, focus, sibling, t_r) ==
    IF sibling = None THEN t_r
    ELSE LET focus_ind == nums(ch, dat, focus)
             sibling_ind == nums(ch, dat, sibling)
         IN IF Min(sibling_ind) < Max(focus_ind)
            THEN scan_right(par, ch, dat, focus,
                            right_sibling(par, ch, dat, sibling), t_r)
            ELSE IF Min(sibling_ind) > Max(focus_ind) + 1
            THEN t_r
            ELSE scan_right(par, ch, dat, sibling,
                            right_sibling(par, ch, dat, sibling),
                            Max(sibling_ind) + 1)

\* entry of root_attach: tree_terms and the iterator over the children
RootAttachStart ==
    /\ pc = "run" /\ err = "none"
    /\ ip <= Len(trans) /\ trans[ip] = "root_attach"
    /\ tree_terms' = terminals(children, data, tree)
    /\ queue' = trees_children(children, data, tree)
    /\ pc' = "root_attach"
    /\ child' = None /\ target' = None /\ examined' = <<>>
    /\ UNCHANGED <<tree, parent, children, data, trans, ip, err, split_log, gvars>>

\* one iteration of the for loop of root_attach
RootAttachChild ==
    /\ pc = "root_attach" /\ queue # <<>>
    /\ LET c == Head(queue)
           tree_min == data[tree_terms[1]].num
           tree_max == data[tree_terms[Len(tree_terms)]].num
           term_ind == nums(children, data, c)
           t_l == Min(term_ind) - 1
           t_r == scan_right(parent, children, data, c,
                             right_sibling(parent, children, data, c),
                             Max(term_ind) + 1)
       IN /\ child' = c
          /\ examined' = Append(examined, c)
          /\ queue' = Tail(queue)
          /\ IF t_l < tree_min \/ t_r > tree_max
             THEN /\ target' = None
                  /\ UNCHANGED <<parent, children>>
             ELSE LET tg == lca(parent, tree_terms[t_l], tree_terms[t_r])
                      ch1 == [children EXCEPT ![parent[c]] = remove(@, c)]
                  IN /\ target' = tg
                     /\ children' = [ch1 EXCEPT ![tg] = Append(@, c)]
                     /\ parent' = [parent EXCEPT ![c] = tg]
    /\ UNCHANGED <<tree, data, trans, ip, pc, err, tree_terms, split_log, grammar, cnt, dest>>

\* the for loop is exhausted: return tree
RootAttachReturn ==
    /\ pc = "root_attach" /\ queue = <<>>
    /\ pc' = "run"
    /\ ip' = ip + 1
    /\ UNCHANGED <<tree, parent, children, data, trans, err,
                   ravars, split_log, gvars>>

\* -------------------------------------------------------- negra_mark_heads
\* position of the first x in the list s (list.index), 0 if absent
RECURSIVE index_of(_, _)
index_of(s, x) ==
    IF s = <<>> THEN 0
    ELSE IF Head(s) = x THEN 1
    ELSE LET r == index_of(Tail(s), x) IN IF r = 0 THEN 0 ELSE r + 1

Reverse(s) == [i \in 1..Len(s) |-> s[Len(s) + 1 - i]]

\* head_index taking the leftmost instead of the rightmost NK
head_index_leftmost_nk(edges) ==
    IF "HD" \in Range(edges) THEN index_of(edges, "HD")
    ELSE IF "NK" \in Range(edges) THEN index_of(edges, "NK")
    ELSE 1

\* position (1-based) of the head child among the edge labels of the children
head_index(edges) ==
    IF "HD" \in Range(edges) THEN index_of(edges, "HD")
    ELSE IF "NK" \in Range(edges)
    THEN Len(edges) + 1 - index_of(Reverse(edges), "NK")
    ELSE 1

\* data[n]['head'] = v
set_head(dat, n, v) ==
    [dat EXCEPT ![n] = [@ EXCEPT !.head = v, !.keys = @ \cup {"head"}]]

RECURSIVE set_heads(_, _, _, _)
\* the loop that sets head on the children kids[i..], index the head child
set_heads(dat, kids, i, index) ==
    IF i > Len(kids) THEN dat
    ELSE set_heads(set_head(dat, kids[i], i = index), kids, i + 1, index)

\* body of the preorder loop of negra_mark_heads for one subtree
mark_node(ch, dat, subtree) ==
    IF has_children(ch, subtree)
    THEN LET subtree_children == trees_children(ch, dat, subtree)
             edges == [i \in 1..Len(subtree_children) |->
                          dat[subtree_children[i]].edge]
         IN set_heads(dat, subtree_children, 1, head_index(edges))
    ELSE dat

RECURSIVE mark_all(_, _, _)
mark_all(ch, dat, order) ==
    IF order = <<>> THEN dat
    ELSE mark_all(ch, mark_node(ch, dat, Head(order)), Tail(order))

negra_mark_heads(ch, dat, t) ==
    mark_all(ch, set_head(dat, t, FALSE), preorder(ch, dat, t))

NegraMarkHeads ==
    /\ pc = "run" /\ err = "none"
    /\ ip <= Len(trans) /\ trans[ip] = "negra_mark_heads"
    /\ data' = negra_mark_heads(children, data, tree)
    /\ ip' = ip + 1
    /\ UNCHANGED <<tree, parent, children, trans, pc, err,
                   ravars, split_log, gvars>>

\* -------------------------------------------------------------- boyd_split
\* A pass works on st = [parent, children, data, err, log].

RECURSIVE make_blocks_wide(_, _, _, _)
\* make_blocks with the gap test off by one: a gap of one terminal is missed
make_blocks_wide(ch, dat, kids, blocks) ==
    IF kids = <<>> THEN blocks
    ELSE LET c == Head(kids)
             n == Len(blocks)
         IN IF n = 0
            THEN make_blocks_wide(ch, dat, Tail(kids), <<(<<c>>)>>)
            ELSE LET last == blocks[n][Len(blocks[n])]
                     lt == terminals(ch, dat, last)
                     last_terminal == dat[lt[Len(lt)]].num
                     first == dat[terminals(ch, dat, c)[1]].num
                 IN IF first > last_terminal + 2
                    THEN make_blocks_wide(ch, dat, Tail(kids), Append(blocks, <<c>>))
                    ELSE make_blocks_wide(ch, dat, Tail(kids),
                                          [blocks EXCEPT ![n] = Append(@, c)])

RECURSIVE make_blocks(_, _, _, _)
\* the block-building loop: kids are the children still to be placed
make_blocks(ch, dat, kids, blocks) ==
    IF kids = <<>> THEN blocks
    ELSE LET c == Head(kids)
             n == Len(blocks)
         IN IF n = 0
            THEN make_blocks(ch, dat, Tail(kids), <<(<<c>>)>>)
            ELSE LET last == blocks[n][Len(blocks[n])]
                     lt == terminals(ch, dat, last)
                     last_terminal == dat[lt[Len(lt)]].num
                     first == dat[terminals(ch, dat, c)[1]].num
                 IN IF first > last_terminal + 1
                    THEN make_blocks(ch, dat, Tail(kids), Append(blocks, <<c>>))
                    ELSE make_blocks(ch, dat, Tail(kids),
                                     [blocks EXCEPT ![n] = Append(@, c)])

\* covers_head without the test on split children
covers_head_any(dat, c) == dat[c].head

\* the head_block test of one child of a block
covers_head(dat, c) ==
    dat[c].head /\ ((~dat[c].split) \/ dat[c].head_block)

RECURSIVE move_block(_, _, _, _)
\* the inner loop over the children of one block, new is the block node
move_block(st, subtree, new, block) ==
    IF block = <<>> THEN st
    ELSE LET c == Head(block)
             d1 == [st.data EXCEPT ![new].head_block = @ \/ covers_head(st.data, c)]
             c1 == [st.children EXCEPT ![subtree] = remove(@, c),
                                       ![new] = Append(@, c)]
             p1 == [st.parent EXCEPT ![c] = new]
         IN move_block([st EXCEPT !.data = d1, !.children = c1, !.parent = p1],
                       subtree, new, Tail(block))

\* trees.Tree(data): a new node with a copy of data, no parent, no children
new_node(st, d) ==
    [st EXCEPT !.parent = Append(@, None),
               !.children = Append(@, <<>>),
               !.data = Append(@, d)]

\* the test never fails: a node is split whether heads are marked or not
heads_marked_always(dat, n) == TRUE

\* 'head' in split[-1].data, the data being a copy of that of node n
heads_marked(dat, n) == "head" \in dat[n].keys

\* the blocks numbered from 0, as enumerate counts them
block_index_from_zero(i) == i - 1

\* (i + 1) for the index of enumerate; the blocks are counted from 1 here
block_index(i) == i

RECURSIVE split_blocks(_, _, _, _, _, _)
\* the loop over the blocks of a node that is split; split is the list of
\* the nodes created so far
split_blocks(st, subtree, par, blocks, i, split) ==
    IF i > Len(blocks)
    THEN [st EXCEPT !.log = Append(@, [subtree |-> subtree, parent |-> par,
                                       blocks |-> blocks, split |-> split])]
    ELSE IF ~heads_marked(st.data, subtree)
    THEN [st EXCEPT !.err = "ValueError"]
    ELSE LET new == Len(st.parent) + 1
             s1 == new_node(st, st.data[subtree])
             d1 == [s1.data EXCEPT ![new] =
                       [@ EXCEPT !.split = TRUE,
                                 !.head = st.data[subtree].head,
                                 !.head_block = FALSE,
                                 !.block_number = block_index(i),
                                 !.keys = @ \cup {"block_number"}]]
             c1 == [s1.children EXCEPT ![par] = Append(@, new)]
             p1 == [s1.parent EXCEPT ![new] = par]
             s2 == [s1 EXCEPT !.data = d1, !.children = c1, !.parent = p1]
         IN split_blocks(move_block(s2, subtree, new, blocks[i]),
                         subtree, par, blocks, i + 1, Append(split, new))

\* body of the postorder loop of boyd_split for one subtree
split_node(st, subtree) ==
    LET d0 == [st.data EXCEPT ![subtree] =
                  [@ EXCEPT !.split = FALSE, !.head_block = TRUE,
                            !.keys = @ \cup {"split", "head_block"}]]
        s0 == [st EXCEPT !.data = d0]
        blocks == make_blocks(s0.children, s0.data,
                              trees_children(s0.children, s0.data, subtree), <<>>)
        par == s0.parent[subtree]
    IN IF Len(blocks) > 1
       THEN IF par = None
            THEN [s0 EXCEPT !.err = "AttributeError"]
            ELSE split_blocks(
                    [s0 EXCEPT !.children = [@ EXCEPT ![par] = remove(@, subtree)],
                               !.parent = [@ EXCEPT ![subtree] = None]],
                    subtree, par, blocks, 1, <<>>)
       ELSE s0

RECURSIVE split_all(_, _)
split_all(st, order) ==
    IF order = <<>> \/ st.err # "none" THEN st
    ELSE split_all(split_node(st, Head(order)), Tail(order))

boyd_split(st, t) == split_all(st, postorder(st.children, st.data, t))

State == [parent |-> parent, children |-> children, data |-> data,
          err |-> "none", log |-> <<>>]

BoydSplit ==
    /\ pc = "run" /\ err = "none"
    /\ ip <= Len(trans) /\ trans[ip] = "boyd_split"
    /\ LET r == boyd_split(State, tree)
       IN /\ parent' = r.parent
          /\ children' = r.children
          /\ data' = r.data
          /\ err' = r.err
          /\ split_log' = r.log
    /\ ip' = ip + 1
    /\ UNCHANGED <<tree, trans, pc, ravars, gvars>>

\* ----------------------------------------------------------------- raising
RECURSIVE raise_children_drop(_, _, _, _)
\* raise_children that detaches the children without attaching them to par
raise_children_drop(st, subtree, par, kids) ==
    IF kids = <<>> THEN st
    ELSE LET c == Head(kids)
             c1 == [st.children EXCEPT ![subtree] = remove(@, c)]
             p1 == [st.parent EXCEPT ![c] = par]
         IN raise_children_drop([st EXCEPT !.children = c1, !.parent = p1],
                                subtree, par, Tail(kids))

RECURSIVE raise_children_front(_, _, _, _)
\* raise_children that puts the children at the front of the list of par
raise_children_front(st, subtree, par, kids) ==
    IF kids = <<>> THEN st
    ELSE LET c == Head(kids)
             c1 == [st.children EXCEPT ![subtree] = remove(@, c),
                                       ![par] = <<c>> \o @]
             p1 == [st.parent EXCEPT ![c] = par]
         IN raise_children_front([st EXCEPT !.children = c1, !.parent = p1],
                                 subtree, par, Tail(kids))

RECURSIVE raise_children(_, _, _, _)
\* the inner loop of raising: the children kids of subtree go to par
raise_children(st, subtree, par, kids) ==
    IF kids = <<>> THEN st
    ELSE LET c == Head(kids)
             c1 == [st.children EXCEPT ![subtree] = remove(@, c),
                                       ![par] = Append(@, c)]
             p1 == [st.parent EXCEPT ![c] = par]
         IN raise_children([st EXCEPT !.children = c1, !.parent = p1],
                           subtree, par, Tail(kids))

\* raise_node that leaves the parent reference of the removed node as it was
raise_node_dangling(st, subtree) ==
    LET par == st.parent[subtree]
        s1 == [st EXCEPT !.children = [@ EXCEPT ![par] = remove(@, subtree)]]
    IN raise_children(s1, subtree, par,
                      trees_children(s1.children, s1.data, subtree))

\* body of the second loop of raising for one node of removal
raise_node(st, subtree) ==
    LET par == st.parent[subtree]
        s1 == [st EXCEPT !.children = [@ EXCEPT ![par] = remove(@, subtree)],
                         !.parent = [@ EXCEPT ![subtree] = None]]
    IN raise_children(s1, subtree, par,
                      trees_children(s1.children, s1.data, subtree))

RECURSIVE raise_all(_, _)
raise_all(st, removal_list) ==
    IF removal_list = <<>> THEN st
    ELSE raise_all(raise_node(st, Head(removal_list)), Tail(removal_list))

RECURSIVE select_removal_head(_, _, _)
\* select_removal with the head_block test inverted
select_removal_head(dat, t, order) ==
    IF order = <<>> THEN <<>>
    ELSE LET s == Head(order)
         IN (IF s # t /\ dat[s].split /\ dat[s].head_block THEN <<s>> ELSE <<>>)
            \o select_removal_head(dat, t, Tail(order))

RECURSIVE select_removal(_, _, _)
\* the first loop of raising: the nodes to remove, in preorder
select_removal(dat, t, order) ==
    IF order = <<>> THEN <<>>
    ELSE LET s == Head(order)
         IN (IF s # t /\ dat[s].split /\ ~dat[s].head_block THEN <<s>> ELSE <<>>)
            \o select_removal(dat, t, Tail(order))

removal(st, t) == select_removal(st.data, t, preorder(st.children, st.data, t))

\* data['split'] or data['head_block'] is read on a node that lacks the key
raising_key_error(st, t) ==
    \E s \in Range(preorder(st.children, st.data, t)) :
        /\ s # t
        /\ \/ "split" \notin st.data[s].keys
           \/ st.data[s].split /\ "head_block" \notin st.data[s].keys

raising(st, t) ==
    IF raising_key_error(st, t) THEN [st EXCEPT !.err = "KeyError"]
    ELSE raise_all(st, removal(st, t))

Raising ==
    /\ pc = "run" /\ err = "none"
    /\ ip <= Len(trans) /\ trans[ip] = "raising"
    /\ LET r == raising(State, tree)
       IN /\ parent' = r.parent
          /\ children' = r.children
          /\ data' = r.data
          /\ err' = r.err
    /\ ip' = ip + 1
    /\ UNCHANGED <<tree, trans, pc, ravars, split_log, gvars>>

\* globals()[algorithm] for a name that is no pass: the lookup raises KeyError
\* when the loop over args.trans comes to the name
UnknownPass ==
    /\ pc = "run" /\ err = "none"
    /\ ip <= Len(trans) /\ trans[ip] \notin Range(Pipeline)
    /\ err' = "KeyError"
    /\ pc' = "lookup"
    /\ UNCHANGED <<tree, parent, children, data, trans, ip,
                   ravars, split_log, gvars>>

\* the driver writes the tree once every pass of trans has been applied
WriteTree ==
    /\ pc = "run" /\ err = "none"
    /\ ip = Len(trans) + 1
    /\ pc' = "written"
    /\ UNCHANGED <<tree, parent, children, data, trans, ip, err,
                   ravars, split_log, gvars>>

\* ------------------------------------------------------------------- dicts
\* A dict is the sequence of its <<key, value>> items; iteration yields the
\* keys in that order.
dict_keys(d) == [i \in 1..Len(d) |-> d[i][1]]
has_key(d, k) == \E i \in 1..Len(d) : d[i][1] = k
get(d, k) == d[CHOOSE i \in 1..Len(d) : d[i][1] = k][2]
\* d[k] = v
put(d, k, v) ==
    IF has_key(d, k)
    THEN [i \in 1..Len(d) |-> IF d[i][1] = k THEN <<k, v>> ELSE d[i]]
    ELSE Append(d, <<k, v>>)

\* ----------------------------------------------------------------- extract
\* term_map[num]: the position (0-based) of the rhs element covering num
term_map(ch, dat, kids, n) ==
    Max({i \in 1..Len(kids) : n \in nums(ch, dat, kids[i])}) - 1

RECURSIVE lin_block_each(_, _, _, _, _)
\* lin_block that appends a pair for every terminal
lin_block_each(ch, dat, kids, block, st) ==
    IF block = <<>> THEN st
    ELSE LET rhs_pos == term_map(ch, dat, kids, dat[Head(block)].num)
         IN lin_block_each(ch, dat, kids, Tail(block),
               [lin |-> [st.lin EXCEPT ![Len(st.lin)] =
                           Append(@, <<rhs_pos, st.rhs_argpos[rhs_pos + 1]>>)],
                rhs_argpos |-> [st.rhs_argpos EXCEPT ![rhs_pos + 1] = @ + 1]])

RECURSIVE lin_block_no_count(_, _, _, _, _)
\* lin_block that never advances rhs_argpos
lin_block_no_count(ch, dat, kids, block, st) ==
    IF block = <<>> THEN st
    ELSE LET rhs_pos == term_map(ch, dat, kids, dat[Head(block)].num)
             cur == st.lin[Len(st.lin)]
         IN IF Len(cur) = 0 \/ cur[Len(cur)][1] # rhs_pos
            THEN lin_block_no_count(ch, dat, kids, Tail(block),
                    [st EXCEPT !.lin = [@ EXCEPT ![Len(st.lin)] =
                        Append(@, <<rhs_pos, st.rhs_argpos[rhs_pos + 1]>>)]])
            ELSE lin_block_no_count(ch, dat, kids, Tail(block), st)

\* the loop over the terminals of one block: st = [lin, rhs_argpos]
RECURSIVE lin_block(_, _, _, _, _)
lin_block(ch, dat, kids, block, st) ==
    IF block = <<>> THEN st
    ELSE LET rhs_pos == term_map(ch, dat, kids, dat[Head(block)].num)
             cur == st.lin[Len(st.lin)]
         IN IF Len(cur) = 0 \/ cur[Len(cur)][1] # rhs_pos
            THEN lin_block(ch, dat, kids, Tail(block),
                    [lin |-> [st.lin EXCEPT ![Len(st.lin)] =
                                Append(@, <<rhs_pos, st.rhs_argpos[rhs_pos + 1]>>)],
                     rhs_argpos |-> [st.rhs_argpos EXCEPT ![rhs_pos + 1] = @ + 1]])
            ELSE lin_block(ch, dat, kids, Tail(block), st)

\* the loop over the terminal blocks of the subtree
RECURSIVE lin_blocks(_, _, _, _, _)
lin_blocks(ch, dat, kids, blocks, st) ==
    IF blocks = <<>> THEN st
    ELSE lin_blocks(ch, dat, kids, Tail(blocks),
            lin_block(ch, dat, kids, Head(blocks),
                      [st EXCEPT !.lin = Append(@, <<>>)]))

\* the bare rule of a subtree: its label, then the labels of its children
func_of(ch, dat, subtree) ==
    LET kids == trees_children(ch, dat, subtree)
    IN <<dat[subtree].label>> \o [i \in 1..Len(kids) |-> dat[kids[i]].label]

\* the linearization of a subtree
lin_of(ch, dat, subtree) ==
    LET kids == trees_children(ch, dat, subtree)
        blocks == terminal_blocks(ch, dat, subtree)
        blockseq == [b \in 1..Len(blocks) |-> blocks[b]]
    IN lin_blocks(ch, dat, kids, blockseq,
                  [lin |-> <<>>, rhs_argpos |-> [i \in 1..Len(kids) |-> 0]]).lin

\* the vertical context of a subtree
vert_of(par, dat, subtree) ==
    LET dom == dominance(par, subtree)
    IN [i \in 1..Len(dom) |-> dat[dom[i]].label]

\* count_rule that stores 1 instead of adding 1
count_rule_reset(g, func, lin, vert) ==
    LET g1 == IF ~has_key(g, func) THEN put(g, func, <<>>) ELSE g
        l1 == get(g1, func)
        l2 == IF ~has_key(l1, lin) THEN put(l1, lin, <<>>) ELSE l1
        v1 == get(l2, lin)
    IN put(g1, func, put(l2, lin, put(v1, vert, 1)))

\* grammar[func][lin][vert] += 1, creating the missing levels
count_rule(g, func, lin, vert) ==
    LET g1 == IF ~has_key(g, func) THEN put(g, func, <<>>) ELSE g
        l1 == get(g1, func)
        l2 == IF ~has_key(l1, lin) THEN put(l1, lin, <<>>) ELSE l1
        v1 == get(l2, lin)
        v2 == IF ~has_key(v1, vert) THEN put(v1, vert, 0) ELSE v1
        v3 == put(v2, vert, get(v2, vert) + 1)
    IN put(g1, func, put(l2, lin, v3))

RECURSIVE extract_all(_, _, _, _, _)
extract_all(par, ch, dat, order, g) ==
    IF order = <<>> THEN g
    ELSE LET subtree == Head(order)
         IN extract_all(par, ch, dat, Tail(order),
               IF has_children(ch, subtree)
               THEN count_rule(g, func_of(ch, dat, subtree),
                               lin_of(ch, dat, subtree),
                               vert_of(par, dat, subtree))
               ELSE g)

extract(par, ch, dat, t, g) == extract_all(par, ch, dat, preorder(ch, dat, t), g)

\* ------------------------------------------------------------------- pmcfg
RECURSIVE sum_values(_)
sum_values(d) == IF d = <<>> THEN 0 ELSE Head(d)[2] + sum_values(Tail(d))

\* st = [out, lindef_to_id, lindef_id, func_id]

RECURSIVE pmcfg_lindefs(_, _, _)
\* the loop over the blocks of one linearization; ids collects the s-ids
pmcfg_lindefs(lin, st, ids) ==
    IF lin = <<>> THEN [st |-> st, ids |-> ids]
    ELSE LET lindef == Head(lin)
             s1 == IF ~has_key(st.lindef_to_id, lindef)
                   THEN [st EXCEPT !.lindef_to_id = put(@, lindef, st.lindef_id),
                                   !.lindef_id = @ + 1]
                   ELSE st
         IN pmcfg_lindefs(Tail(lin), s1, Append(ids, get(s1.lindef_to_id, lindef)))

\* next_func_id that never advances
same_func_id(func_id) == func_id

\* func_id after the three lines of one linearization have been written
next_func_id(func_id) == func_id + 1

RECURSIVE pmcfg_lins(_, _, _)
\* the loop over the linearizations of one function
pmcfg_lins(func, lins, st) ==
    IF lins = <<>> THEN st
    ELSE LET lin == Head(lins)[1]
             count == sum_values(Head(lins)[2])
             r == pmcfg_lindefs(lin, st, <<>>)
             lines == << [kind |-> "rule", fun |-> st.func_id, func |-> func],
                         [kind |-> "lin", fun |-> st.func_id, seqs |-> r.ids],
                         [kind |-> "count", fun |-> st.func_id, count |-> count] >>
         IN pmcfg_lins(func, Tail(lins),
               [r.st EXCEPT !.out = @ \o lines,
                            !.func_id = next_func_id(@)])

RECURSIVE pmcfg_funcs(_, _)
\* the loop over the functions of the grammar
pmcfg_funcs(g, st) ==
    IF g = <<>> THEN st
    ELSE pmcfg_funcs(Tail(g), pmcfg_lins(Head(g)[1], Head(g)[2], st))

\* the lines of the sequence definitions, by ascending id
seq_lines(lindef_to_id) ==
    [i \in 1..Len(lindef_to_id) |->
        LET e == CHOOSE j \in 1..Len(lindef_to_id) : lindef_to_id[j][2] = i
        IN [kind |-> "seq", id |-> i, lindef |-> lindef_to_id[e][1]]]

pmcfg(g) ==
    LET st == pmcfg_funcs(g, [out |-> <<>>, lindef_to_id |-> <<>>,
                              lindef_id |-> 1, func_id |-> 1])
    IN st.out \o seq_lines(st.lindef_to_id)

\* ------------------------------------------------------------- grammar.run
MaxTrees == 2

\* the labels of the internal nodes replaced by those of labs
relabel(ch, dat, labs) ==
    [n \in 1..Len(dat) |->
        IF n = 1 THEN [dat[n] EXCEPT !.label = labs[1]]
        ELSE IF has_children(ch, n)
        THEN [dat[n] EXCEPT !.label = labs[2 + (n % 2)]]
        ELSE dat[n]]

\* one round of the loop over the input: the input delivers a tree, of the
\* shape at hand under some labelling, and the tree is extracted
Extract ==
    /\ pc = "run" /\ cnt <= MaxTrees
    /\ \E labs \in LabelPatterns : data' = relabel(children, data, labs)
    /\ grammar' = extract(parent, children, data', tree, grammar)
    /\ cnt' = cnt + 1
    /\ UNCHANGED <<tree, parent, children, trans, ip, pc, err,
                   ravars, split_log, dest>>

\* the input is exhausted: the grammar is written
Pmcfg ==
    /\ pc = "run"
    /\ dest' = pmcfg(grammar)
    /\ pc' = "written"
    /\ UNCHANGED <<tree, parent, children, data, trans, ip, err,
                   ravars, split_log, grammar, cnt>>

Next ==
    \/ RootAttachStart \/ RootAttachChild \/ RootAttachReturn
    \/ NegraMarkHeads
    \/ BoydSplit
    \/ Raising
    \/ WriteTree

Spec == Init /\ [][Next]_vars

NextSplit == NegraMarkHeads \/ BoydSplit \/ Raising \/ WriteTree

SpecSplit == InitSplit /\ [][NextSplit]_vars

NextAttach ==
    \/ RootAttachStart \/ RootAttachChild \/ RootAttachReturn
    \/ WriteTree

SpecAttach == InitAttach /\ [][NextAttach]_vars

NextDriver ==
    \/ RootAttachStart \/ RootAttachChild \/ RootAttachReturn
    \/ NegraMarkHeads
    \/ BoydSplit
    \/ Raising
    \/ UnknownPass
    \/ WriteTree

SpecDriver == InitDriver /\ [][NextDriver]_vars

SpecOrder == InitOrder /\ [][Next]_vars

NextGrammar == Extract \/ Pmcfg

SpecGrammar == InitGrammar /\ [][NextGrammar]_vars

\* ================================================================== claims
Reachable == subtree_nodes(children, tree)

\* the nodes that carry a num: the terminals of the input
TerminalNodes == {n \in 1..Len(data) : "num" \in data[n].keys}

RECURSIVE yield_list(_, _, _)
\* the leaves met when walking the raw child lists down from t, one entry
\* for every path that reaches a leaf
yield_list(ch, t, fuel) ==
    IF ch[t] = <<>> \/ fuel = 0 THEN <<t>>
    ELSE LET below == [i \in 1..Len(ch[t]) |-> yield_list(ch, ch[t][i], fuel - 1)]
             cat[i \in 0..Len(ch[t])] ==
                 IF i = 0 THEN <<>> ELSE cat[i - 1] \o below[i]
         IN cat[Len(ch[t])]

\* the pass applied last is name
After(name) ==
    /\ pc \in {"run", "written"}
    /\ ip > 1
    /\ trans[ip - 1] = name

HeadMarked == \A n \in Reachable : "head" \in data[n].keys

\* the terminal yield of n is one run of consecutive nums
Contiguous(ch, dat, n) ==
    LET N == nums(ch, dat, n) IN \A x \in Min(N)..Max(N) : x \in N

NotHeadBlock(n) == data[n].split /\ ~data[n].head_block

\* C1: with the passes applied in pipeline order, before and after each of
\* them the walk from the root meets exactly the terminals of the input, each
\* once, and their nums are 1..k; no pass fails.
C1_TerminalsKept ==
    (trans = Pipeline /\ pc \in {"run", "written"}) =>
        LET ys == yield_list(children, tree, Len(parent))
            k == Cardinality(TerminalNodes)
        IN /\ err = "none"
           /\ Len(ys) = k
           /\ Range(ys) = TerminalNodes
           /\ {data[ys[i]].num : i \in 1..Len(ys)} = 1..k

\* all four passes ran, root_attach moved its last child, boyd_split split a
\* node and raising removed a block node
C1_Witness ==
    /\ trans = Pipeline /\ After("raising")
    /\ target # None
    /\ split_log # <<>>
    /\ \E n \in 1..Len(data) : NotHeadBlock(n) /\ parent[n] = None

\* C2: after boyd_split on a head-marked tree every node reachable from the
\* root has a contiguous terminal yield, and the pass did not fail.
C2_ContiguousAfterSplit ==
    (After("boyd_split") /\ HeadMarked) =>
        /\ err = "none"
        /\ \A n \in Reachable : Contiguous(children, data, n)

\* boyd_split has split two nodes, one of them below the other
C2_Witness ==
    /\ After("boyd_split") /\ HeadMarked
    /\ \E i, j \in 1..Len(split_log) : split_log[j].parent = split_log[i].subtree

RECURSIVE head_terminal(_, _, _)
\* the terminal reached from n by following the head children
head_terminal(ch, dat, n) ==
    IF ch[n] = <<>> THEN n
    ELSE head_terminal(ch, dat, CHOOSE c \in Range(ch[n]) : dat[c].head)

\* C3: when boyd_split runs on a head-marked tree, of the nodes created for
\* a split node exactly one has head_block = TRUE, the one whose yield holds
\* the terminal reached from the split node over head children.
C3_OneHeadBlock ==
    [][ (pc = "run" /\ ip <= Len(trans) /\ trans[ip] = "boyd_split"
            /\ ip' = ip + 1 /\ HeadMarked) =>
          \A i \in 1..Len(split_log') :
             LET e == split_log'[i]
                 hb == {j \in 1..Len(e.split) : data'[e.split[j]].head_block}
                 ht == data[head_terminal(children, data, e.subtree)].num
             IN /\ Len(e.split) > 1
                /\ \A j \in 1..Len(e.split) :
                      "head_block" \in data'[e.split[j]].keys
                /\ Cardinality(hb) = 1
                /\ \A j \in hb : ht \in nums(children', data', e.split[j]) ]_vars

\* the head child of a split node was split itself, and its blocks went to
\* different blocks of the parent
C3_Witness ==
    /\ After("boyd_split") /\ HeadMarked
    /\ \E i, j \in 1..Len(split_log) :
          /\ split_log[j].parent = split_log[i].subtree
          /\ data[split_log[j].split[1]].head
          /\ \E a, b \in 1..Len(split_log[i].blocks) :
                /\ a # b
                /\ split_log[j].split[1] \in Range(split_log[i].blocks[a])
                /\ split_log[j].split[2] \in Range(split_log[i].blocks[b])

\* C4: after raising on the output of boyd_split no node reachable from the
\* root is a split node that is not a head block, and every reachable node has
\* a contiguous terminal yield.
C4_NoCrossingAfterRaising ==
    (After("raising") /\ ip > 2 /\ trans[ip - 2] = "boyd_split") =>
        /\ err = "none"
        /\ \A n \in Reachable :
              /\ ~NotHeadBlock(n)
              /\ Contiguous(children, data, n)

\* raising removed a block node that sat in another removed block node
C4_Witness ==
    /\ After("raising") /\ ip > 2 /\ trans[ip - 2] = "boyd_split"
    /\ \E i, j \in 1..Len(split_log) :
          \E a \in 1..Len(split_log[i].split), b \in 1..Len(split_log[j].split) :
             /\ split_log[j].split[b] \in Range(split_log[i].blocks[a])
             /\ NotHeadBlock(split_log[i].split[a])
             /\ NotHeadBlock(split_log[j].split[b])
             /\ parent[split_log[i].split[a]] = None
             /\ parent[split_log[j].split[b]] = None

\* C5: after negra_mark_heads every node with children has exactly one child
\* with head = TRUE, the others have head = FALSE; the marked child is the
\* leftmost HD child, else the rightmost NK child, else the leftmost child.
C5_HeadChoice ==
    After("negra_mark_heads") =>
        \A n \in Reachable :
           has_children(children, n) =>
              LET kids == trees_children(children, data, n)
                  e == [i \in 1..Len(kids) |-> data[kids[i]].edge]
                  H == {i \in 1..Len(kids) : data[kids[i]].head}
                  HD == {i \in 1..Len(kids) : e[i] = "HD"}
                  NK == {i \in 1..Len(kids) : e[i] = "NK"}
              IN /\ \A i \in 1..Len(kids) : "head" \in data[kids[i]].keys
                 /\ Cardinality(H) = 1
                 /\ H = IF HD # {} THEN {Min(HD)}
                        ELSE IF NK # {} THEN {Max(NK)}
                        ELSE {1}

\* heads are marked and some node has several NK children and no HD child,
\* another has several HD children
C5_Witness ==
    /\ After("negra_mark_heads")
    /\ \E n \in Reachable :
          /\ Cardinality({c \in Range(children[n]) : data[c].edge = "NK"}) > 1
          /\ \A c \in Range(children[n]) : data[c].edge # "HD"
    /\ \E n \in Reachable :
          Cardinality({c \in Range(children[n]) : data[c].edge = "HD"}) > 1

\* the node a is x or an ancestor of x, read off the child lists
Dominates(a, x) == x \in subtree_nodes(children, a)

\* the terminal with num i
TerminalAt(i) == CHOOSE x \in TerminalNodes : data[x].num = i

\* a is the lowest node that dominates x and y
LowestCommon(a, x, y) ==
    /\ Dominates(a, x) /\ Dominates(a, y)
    /\ \A b \in 1..Len(parent) :
          (Dominates(b, x) /\ Dominates(b, y)) => Dominates(b, a)

RECURSIVE chain_end(_, _)
\* the last terminal of the run that starts after E and is made of the
\* yields of children of the root, each starting right after the one before
chain_end(E, fuel) ==
    LET next == {s \in Range(children[tree]) : Min(nums(children, data, s)) = E + 1}
    IN IF next = {} \/ fuel = 0 THEN E
       ELSE chain_end(Max(nums(children, data, CHOOSE s \in next : TRUE)), fuel - 1)

\* s lists the children of the root left to right, each once
LeftToRight(s) ==
    /\ Len(s) = Len(children[tree])
    /\ Range(s) = Range(children[tree])
    /\ \A i, j \in 1..Len(s) :
          i < j => Min(nums(children, data, s[i])) < Min(nums(children, data, s[j]))

\* one step of root_attach; strict: the moved child has left the root even
\* when the lowest common ancestor is the root
AttachStep(strict) ==
    /\ (pc = "run" /\ pc' = "root_attach") =>
          /\ LeftToRight(queue')
          /\ examined' = <<>>
    /\ (pc = "root_attach" /\ pc' = "root_attach") =>
          LET c == Head(queue)
              N == nums(children, data, c)
              t_l == Min(N) - 1
              t_r == chain_end(Max(N), Len(parent)) + 1
              k == Cardinality(TerminalNodes)
          IN /\ examined' = Append(examined, c)
             /\ queue' = Tail(queue)
             /\ (t_l >= 1 /\ t_r <= k) =>
                   \E L \in 1..Len(parent) :
                      /\ LowestCommon(L, TerminalAt(t_l), TerminalAt(t_r))
                      /\ parent'[c] = L
                      /\ children'[L] # <<>>
                      /\ children'[L][Len(children'[L])] = c
                      /\ Cardinality({i \in 1..Len(children'[L]) :
                                          children'[L][i] = c}) = 1
                      /\ (strict \/ L # tree) => c \notin Range(children'[tree])
    /\ (pc = "root_attach" /\ pc' = "run") => queue = <<>>

\* C6 as stated: every child of the root is examined once, left to right,
\* and one whose boundaries lie inside the sentence ends up detached from the
\* root, as the last child of the lowest common ancestor of its boundary
\* terminals, with that node as parent.
C6_AttachDetached == [][AttachStep(TRUE)]_vars

\* C6 as amended: the same, but the child is no longer a child of the root
\* only if the lowest common ancestor is not the root itself; if it is, the
\* child moves to the end of the child list of the root.
C6_AttachToLca == [][AttachStep(FALSE)]_vars

\* a child with a gap in its yield was moved below a node other than the root
\* after an earlier child had been examined
C6_Witness ==
    /\ pc = "root_attach"
    /\ Len(examined) > 1
    /\ target \notin {None, tree}
    /\ parent[child] = target
    /\ ~Contiguous(children, data, child)

\* the <<func, lin, vert>> keys of a grammar
rule_keys(g) ==
    UNION { UNION { { <<g[i][1], g[i][2][j][1], g[i][2][j][2][k][1]>> :
                        k \in 1..Len(g[i][2][j][2]) } :
                    j \in 1..Len(g[i][2]) } :
            i \in 1..Len(g) }

\* the count a grammar holds for a key
rule_count(g, key) == get(get(get(g, key[1]), key[2]), key[3])

\* no key occurs twice in a dict
unique_keys(d) == \A i, j \in 1..Len(d) : d[i][1] = d[j][1] => i = j

\* the count a grammar holds for a key, 0 for a key it does not hold
count_of(g, key) == IF key \in rule_keys(g) THEN rule_count(g, key) ELSE 0

\* C7: an extract call removes no key and lowers no count; it gives, for
\* every key, the count the grammar held plus the count that extracting the
\* tree alone into an empty grammar gives, and no other key, so that
\* extracting the same tree a second time keeps the key set and doubles every
\* count; no key is held twice.
C7_Additive ==
    [][ cnt' = cnt + 1 =>
          \E alone \in {extract(parent, children, data', tree, <<>>)} :
             /\ rule_keys(grammar) \subseteq rule_keys(grammar')
             /\ \A key \in rule_keys(grammar) :
                   rule_count(grammar', key) >= rule_count(grammar, key)
             /\ rule_keys(grammar') = rule_keys(grammar) \cup rule_keys(alone)
             /\ \A key \in rule_keys(grammar') :
                   rule_count(grammar', key)
                      = count_of(grammar, key) + count_of(alone, key)
             /\ (cnt = 2 /\ data' = data) =>
                   /\ rule_keys(grammar') = rule_keys(grammar)
                   /\ \A key \in rule_keys(grammar) :
                         rule_count(grammar', key) = 2 * rule_count(grammar, key)
             /\ unique_keys(grammar')
             /\ \A i \in 1..Len(grammar') :
                   /\ unique_keys(grammar'[i][2])
                   /\ \A j \in 1..Len(grammar'[i][2]) :
                         unique_keys(grammar'[i][2][j][2]) ]_vars

\* two trees were extracted that give the same keys and counts, as the same
\* tree extracted twice does, with several keys and a rule that occurs twice
\* in the tree
C7_Witness ==
    /\ cnt = 3
    /\ Cardinality(rule_keys(grammar)) > 1
    /\ \E alone \in {extract(parent, children, data, tree, <<>>)} :
          /\ rule_keys(grammar) = rule_keys(alone)
          /\ \A key \in rule_keys(grammar) :
                rule_count(grammar, key) = 2 * rule_count(alone, key)
          /\ \E key \in rule_keys(grammar) : rule_count(grammar, key) = 4

\* s is a node S with the children NP over terminal 1 and VP over 2 and 3
FlatSentence(s) ==
    /\ data[s].label = "S"
    /\ LET kids == trees_children(children, data, s)
       IN /\ Len(kids) = 2
          /\ data[kids[1]].label = "NP" /\ nums(children, data, kids[1]) = {1}
          /\ data[kids[2]].label = "VP" /\ nums(children, data, kids[2]) = {2, 3}

\* after one extraction the function S -> NP VP has the linearization lin,
\* with count 1
RecordedOnce(lin) ==
    /\ has_key(grammar, <<"S", "NP", "VP">>)
    /\ has_key(get(grammar, <<"S", "NP", "VP">>), lin)
    /\ sum_values(get(get(grammar, <<"S", "NP", "VP">>), lin)) = 1

\* C8 as stated: the linearization is [[(0,0)],[(1,0)]], two blocks.
C8_TwoBlocks ==
    (cnt = 2 /\ \E s \in Reachable : FlatSentence(s)) =>
        RecordedOnce(<< <<(<<0, 0>>)>>, <<(<<1, 0>>)>> >>)

\* C8 as amended: the linearization is [[(0,0),(1,0)]], one block with two
\* argument references, and it is the only one of the function.
C8_OneBlock ==
    (cnt = 2 /\ \E s \in Reachable : FlatSentence(s)) =>
        /\ RecordedOnce(<< <<(<<0, 0>>), (<<1, 0>>)>> >>)
        /\ Len(get(grammar, <<"S", "NP", "VP">>)) = 1

\* the flat sentence has been extracted once
C8_Witness ==
    /\ cnt = 2
    /\ \E s \in Reachable : FlatSentence(s)
    /\ has_key(grammar, <<"S", "NP", "VP">>)

RECURSIVE flatten(_)
flatten(ss) == IF ss = <<>> THEN <<>> ELSE Head(ss) \o flatten(Tail(ss))

\* C9: in every recorded linearization the pairs of every rhs index i carry
\* the argument positions 0..n_i-1 with n_i >= 1, each once, and no block
\* has two adjacent pairs with the same rhs index.
C9_ArgumentCoverage ==
    \A f \in 1..Len(grammar) :
       \A l \in 1..Len(grammar[f][2]) :
          LET func == grammar[f][1]
              lin == grammar[f][2][l][1]
              pairs == flatten(lin)
          IN /\ \A q \in 1..Len(pairs) : pairs[q][1] \in 0..(Len(func) - 2)
             /\ \A i \in 0..(Len(func) - 2) :
                   LET at == {q \in 1..Len(pairs) : pairs[q][1] = i}
                   IN /\ at # {}
                      /\ {pairs[q][2] : q \in at} = 0..(Cardinality(at) - 1)
             /\ \A b \in 1..Len(lin) :
                   \A q \in 1..(Len(lin[b]) - 1) : lin[b][q][1] # lin[b][q + 1][1]

\* a linearization with several blocks in which one rhs element is
\* referenced several times has been recorded
C9_Witness ==
    \E f \in 1..Len(grammar) :
       \E l \in 1..Len(grammar[f][2]) :
          LET lin == grammar[f][2][l][1]
              pairs == flatten(lin)
          IN /\ Len(lin) > 1
             /\ \E q \in 1..Len(pairs) : pairs[q][2] > 0

\* the rule lines of the output
rule_lines == SelectSeq(dest, LAMBDA r : r.kind = "rule")

\* the <<func, lin>> pairs of the grammar in iteration order
RECURSIVE rule_pairs(_)
rule_pairs(g) ==
    IF g = <<>> THEN <<>>
    ELSE [j \in 1..Len(Head(g)[2]) |-> <<Head(g)[1], Head(g)[2][j][1]>>]
         \o rule_pairs(Tail(g))

\* C10 as stated: two rule records carry the same fun id if and only if they
\* are for the same function.
C10_IdPerFunction ==
    \A i, j \in 1..Len(rule_lines) :
       (rule_lines[i].fun = rule_lines[j].fun)
          <=> (rule_lines[i].func = rule_lines[j].func)

\* C10 as amended: every (function, linearization) pair gets its own id, 1,
\* 2, ... in iteration order, so that a function with several linearizations
\* has several ids; the three lines of a record carry the same id.
C10_IdPerLinearization ==
    pc = "written" =>
        LET pairs == rule_pairs(grammar)
        IN /\ Len(rule_lines) = Len(pairs)
           /\ \A i \in 1..Len(pairs) :
                 /\ dest[3 * i - 2].kind = "rule"
                 /\ dest[3 * i - 2].fun = i
                 /\ dest[3 * i - 2].func = pairs[i][1]
                 /\ dest[3 * i - 1].kind = "lin" /\ dest[3 * i - 1].fun = i
                 /\ dest[3 * i].kind = "count" /\ dest[3 * i].fun = i

\* a grammar in which a function has two linearizations has been written
C10_Witness ==
    /\ pc = "written"
    /\ \E f \in 1..Len(grammar) : Len(grammar[f][2]) > 1
    /\ Len(rule_lines) > 2

\* C11 as stated: when a name of the list is rejected as no pass, no pass
\* has been applied to the tree and the tree has not been written.
C11_RejectedBeforeProcessing ==
    pc = "lookup" =>
        /\ ip = 1
        /\ \A n \in 1..Len(data) : data[n].keys \subseteq {"label", "edge", "num"}
        /\ examined = <<>>

\* what the driver does: the name is rejected when the loop over the list
\* comes to it for the first tree, after every pass named before it has been
\* applied to that tree; the tree is not written.
C11_RejectedAtItsTurn ==
    /\ pc = "lookup" =>
          /\ err = "KeyError"
          /\ ip <= Len(trans) /\ trans[ip] \notin Range(Pipeline)
          /\ \A i \in 1..(ip - 1) : trans[i] \in Range(Pipeline)
          /\ dest = <<>>
    /\ pc = "written" => \A i \in 1..Len(trans) : trans[i] \in Range(Pipeline)

\* the name stands last in the list and is rejected after the four passes
C11_Witness ==
    /\ pc = "lookup"
    /\ ip = Len(Pipeline) + 1
    /\ \E n \in 1..Len(data) : data[n].split

\* C12: when boyd_split has returned, every node it split has a head block
\* among the nodes created for it and these nodes carry the head attribute;
\* boyd_split fails with no error but the ValueError "heads not marked?",
\* which it raises when the node to split carries no head attribute.
C12_AbortsWithoutHeadBlock ==
    After("boyd_split") =>
        /\ err \in {"none", "ValueError"}
        /\ err = "none" =>
              \A i \in 1..Len(split_log) :
                 /\ \E j \in 1..Len(split_log[i].split) :
                       data[split_log[i].split[j]].head_block
                 /\ \A j \in 1..Len(split_log[i].split) :
                       "head" \in data[split_log[i].split[j]].keys
        /\ err = "ValueError" =>
              \E n \in 1..Len(data) :
                 /\ "head" \notin data[n].keys
                 /\ parent[n] = None /\ n # tree
                 /\ ~Contiguous(children, data, n)

\* boyd_split was applied to a tree without head marks that has a
\* discontinuous node, and has raised the error
C12_Witness ==
    /\ After("boyd_split")
    /\ err = "ValueError"
    /\ \A n \in 1..Len(data) : "head" \notin data[n].keys

\* the maximal runs of consecutive nums in the terminal yield of n
YieldBlocks(ch, dat, n) ==
    LET N == nums(ch, dat, n)
    IN { a..b : a \in N, b \in N } \cap
       { I \in SUBSET N : /\ I # {}
                          /\ \A x \in Min(I)..Max(I) : x \in I
                          /\ (Min(I) - 1) \notin N /\ (Max(I) + 1) \notin N }

\* the blocks of B that start left of block I
BlocksBefore(B, I) == {J \in B : Min(J) < Min(I)}

\* C13: boyd_split on a head-marked tree. A node with a contiguous yield is
\* not split: it stays in the tree with split = FALSE and head_block = TRUE.
\* A node whose yield has n > 1 blocks is split, once: it leaves the tree, n
\* new nodes are appended to its parent, each with its label and edge and
\* split = TRUE, the node with block_number i over exactly the i-th block;
\* the new nodes end below the parent or, when the parent is split in turn,
\* below the nodes created for the parent. No other node is created.
C13_SplitIffDiscontinuous ==
    [][ (pc = "run" /\ ip <= Len(trans) /\ trans[ip] = "boyd_split"
            /\ ip' = ip + 1 /\ HeadMarked) =>
          LET old == Reachable
              log == split_log'
              made(p) == UNION {Range(log[i].split) :
                                  i \in {k \in 1..Len(log) : log[k].subtree = p}}
          IN /\ err' = "none"
             /\ \A n \in old :
                   LET B == YieldBlocks(children, data, n)
                       E == {i \in 1..Len(log) : log[i].subtree = n}
                   IN IF Cardinality(B) = 1
                      THEN /\ E = {}
                           /\ n \in subtree_nodes(children', tree)
                           /\ ~data'[n].split /\ data'[n].head_block
                      ELSE /\ Cardinality(E) = 1
                           /\ n \notin subtree_nodes(children', tree)
                           /\ \A i \in E :
                                 /\ log[i].parent = parent[n]
                                 /\ Len(log[i].split) = Cardinality(B)
                                 /\ \A j \in 1..Len(log[i].split) :
                                       LET new == log[i].split[j]
                                       IN /\ new > Len(parent)
                                          /\ new \in subtree_nodes(children', tree)
                                          /\ parent'[new] \in
                                                {parent[n]} \cup made(parent[n])
                                          /\ data'[new].label = data[n].label
                                          /\ data'[new].edge = data[n].edge
                                          /\ data'[new].split
                                          /\ data'[new].block_number = j
                                          /\ \E I \in B :
                                                /\ Cardinality(BlocksBefore(B, I)) = j - 1
                                                /\ nums(children', data', new) = I
             /\ (Len(parent) + 1)..Len(parent')
                   = UNION {Range(log[i].split) : i \in 1..Len(log)} ]_vars

\* boyd_split has split a node into two blocks and then its parent, so that
\* the two new nodes lie below different nodes created for the parent
C13_Witness ==
    /\ After("boyd_split") /\ err = "none"
    /\ \E i, j \in 1..Len(split_log) :
          /\ Len(split_log[i].split) = 2
          /\ split_log[i].parent = split_log[j].subtree
          /\ parent[split_log[i].split[1]] # parent[split_log[i].split[2]]
          /\ data[split_log[i].split[2]].block_number = 2

\* the tree before the k-th node of removal is taken out by raising
BeforeRemoval(k) ==
    raise_all(State, SubSeq(removal(State, tree), 1, k - 1))

\* s with the element at position i replaced by the elements of t
splice(s, i, t) == SubSeq(s, 1, i - 1) \o t \o SubSeq(s, i + 1, Len(s))

\* One run of raising on the output of boyd_split, removal by removal: the
\* removed node is detached with parent None and no children, its children
\* get its former parent as parent, and the child list of the parent is,
\* with inplace, the old list with the promoted children in the place of the
\* removed node; without inplace, the old list without the removed node
\* followed by the promoted children, while the children read left to right
\* by leftmost terminal have the promoted children in the place of the
\* removed node.
RaiseSteps(inplace) ==
    (pc = "run" /\ ip <= Len(trans) /\ trans[ip] = "raising" /\ ip' = ip + 1
        /\ ip > 1 /\ trans[ip - 1] = "boyd_split" /\ err = "none") =>
       LET R == removal(State, tree)
       IN /\ children' = BeforeRemoval(Len(R) + 1).children
          /\ parent' = BeforeRemoval(Len(R) + 1).parent
          /\ \A k \in 1..Len(R) :
                \E b \in {BeforeRemoval(k)} : \E a \in {BeforeRemoval(k + 1)} :
                   LET n == R[k]
                       p == b.parent[n]
                       L == b.children[p]
                       kids == trees_children(b.children, b.data, n)
                       V == trees_children(b.children, b.data, p)
                   IN /\ p # None /\ n \in Range(L)
                      /\ Range(kids) = Range(b.children[n])
                      /\ a.parent[n] = None /\ a.children[n] = <<>>
                      /\ \A c \in Range(kids) : a.parent[c] = p
                      /\ IF inplace
                         THEN \/ a.children[p] = splice(L, index_of(L, n), kids)
                              \/ a.children[p]
                                    = splice(L, index_of(L, n), b.children[n])
                         ELSE /\ a.children[p] = remove(L, n) \o kids
                              /\ trees_children(a.children, a.data, p)
                                    = splice(V, index_of(V, n), kids)

\* C14 as stated: the promoted children stand in the child list of the
\* parent where the removed node stood.
C14_RaisedInPlace == [][RaiseSteps(TRUE)]_vars

\* C14 as amended: the promoted children are appended to the child list of
\* the parent in their left-to-right order, the other children keeping their
\* order; it is in the left-to-right reading of the children that they stand
\* where the removed node stood.
C14_RaisedToEnd == [][RaiseSteps(FALSE)]_vars

\* raising has removed a block node that was followed in the child list of
\* its parent by another child, which is now followed by the promoted child
C14_Witness ==
    /\ After("raising") /\ err = "none"
    /\ \E n \in 1..Len(data) :
          /\ NotHeadBlock(n) /\ parent[n] = None /\ n # tree
          /\ data[n].block_number = 1
          /\ \E m \in Reachable :
                /\ data[m].split /\ data[m].head_block
                /\ data[m].block_number = 2
                /\ data[m].label = data[n].label
                /\ \E i, j \in 1..Len(children[parent[m]]) :
                      /\ i < j
                      /\ children[parent[m]][i] = m
                      /\ ~data[children[parent[m]][j]].split
                      /\ Max(nums(children, data, children[parent[m]][j]))
                            < Min(nums(children, data, m))

\* how often x occurs in s
occurrences(s, x) == Cardinality({i \in 1..Len(s) : s[i] = x})

\* how often n occurs in the child lists of all nodes
listed(n) ==
    LET cnts[p \in 0..Len(children)] ==
            IF p = 0 THEN 0 ELSE cnts[p - 1] + occurrences(children[p], n)
    IN cnts[Len(children)]

RECURSIVE above(_, _)
\* the nodes met on at most fuel steps up the parent references from n
above(n, fuel) ==
    IF fuel = 0 \/ parent[n] = None THEN {}
    ELSE {parent[n]} \cup above(parent[n], fuel - 1)

\* C15: whenever no pass has failed, and so after each of root_attach,
\* boyd_split and raising and after every step of root_attach: a node in the
\* child list of p has parent p, a node with a parent is once in the child
\* list of that parent and in no other list, a node not reachable from the
\* root other than the root has no parent and is in no list, and no node is
\* among its own ancestors.
C15_LinksConsistent ==
    err = "none" =>
        /\ \A p \in 1..Len(children) :
              \A i \in 1..Len(children[p]) : parent[children[p][i]] = p
        /\ \A n \in 1..Len(parent) :
              /\ parent[n] # None =>
                    occurrences(children[parent[n]], n) = 1 /\ listed(n) = 1
              /\ parent[n] = None => listed(n) = 0
              /\ n \notin Reachable => parent[n] = None /\ listed(n) = 0
              /\ n \notin above(n, Len(parent))
        /\ parent[tree] = None
        /\ \A c \in Range(examined) :
              parent[c] \notin subtree_nodes(children, c)

\* root_attach has moved a child of the root below another node, and a later
\* pass has detached a node
C15_Witness ==
    /\ pc \in {"run", "written"} /\ err = "none"
    /\ \E c \in Range(examined) : parent[c] \notin {tree, None}
    /\ \E n \in 1..Len(parent) : n # tree /\ parent[n] = None
====
